---------------------------- MODULE Spec2Model ----------------------------
(***************************************************************************)
(* Duty-to-forwarding reconciliation of ghi.py: the shift grid, the        *)
(* DutyRoster, WebexApi.GetDuties (remote schedule -> duties) and           *)
(* WebexApi.Upload (delete / merge / create / refresh).                     *)
(*                                                                         *)
(* Time: a date is an integer (days), a datetime is a number of hours      *)
(* (24*date + hour), a "HH:MM" string is its hour.  A Python dict is a     *)
(* sequence of [k, v] entries in insertion order with distinct keys.       *)
(***************************************************************************)
EXTENDS Integers, Sequences, FiniteSets, TLC

\* ------------------------------------------------------------ bounds
MaxDate == 2
MaxEvents == 2
MaxChanges == 2
ParseMaxEvents == 2

\* ------------------------------------------------- program constants
DAY_SHIFT_START == 10
NIGHT_SHIFT_START == 20
HoursPerDay == 24
day == 0
night == 1

SHIFT_TIME_STRINGS == {DAY_SHIFT_START, NIGHT_SHIFT_START}
Shift == {day, night}

\* ------------------------------------------------------ datetime model
\* datetime.datetime.combine(date, time)
Combine(date, hour) == date * HoursPerDay + hour
\* ts.strftime('%Y-%m-%d') / ts.date()
DateOf(ts) == ts \div HoursPerDay
\* ts.strftime('%H:%M') / ts.time()
TimeOf(ts) == ts % HoursPerDay
\* datetime.datetime.strptime(f'{date} {time}', '%Y-%m-%d %H:%M')
Strptime(date, hour) == date * HoursPerDay + hour

Duty(date, shift) == [date |-> date, shift |-> shift]

\* tuple order of the Duty namedtuple: by date, then by shift (day < night)
DutyLess(a, b) == a.date < b.date \/ (a.date = b.date /\ a.shift < b.shift)

\* a faulty variant of DutyBeginEnd: the night shift's end stays on its own date
DutyBeginEndNoRollover(duty) ==
    IF duty.shift = day
    THEN <<Combine(duty.date, DAY_SHIFT_START), Combine(duty.date, NIGHT_SHIFT_START)>>
    ELSE <<Combine(duty.date, NIGHT_SHIFT_START), Combine(duty.date, DAY_SHIFT_START)>>

DutyBeginEnd(duty) ==
    IF duty.shift = day
    THEN <<Combine(duty.date, DAY_SHIFT_START), Combine(duty.date, NIGHT_SHIFT_START)>>
    ELSE <<Combine(duty.date, NIGHT_SHIFT_START), Combine(duty.date + 1, DAY_SHIFT_START)>>

\* DutyName: '<date><first letter of the shift name>'
DutyName(duty) == <<duty.date, IF duty.shift = day THEN "T" ELSE "N">>

\* ------------------------------------------------------- Python dicts
Range(s) == {s[x] : x \in DOMAIN s}
D_Keys(d) == {d[x].k : x \in DOMAIN d}
D_Has(d, key) == \E x \in DOMAIN d : d[x].k = key
D_Get(d, key) == (CHOOSE e \in Range(d) : e.k = key).v
D_Put(d, key, val) ==
    IF D_Has(d, key)
    THEN [x \in DOMAIN d |-> IF d[x].k = key THEN [k |-> key, v |-> val] ELSE d[x]]
    ELSE Append(d, [k |-> key, v |-> val])
D_Unique(d) == \A x, y \in DOMAIN d : d[x].k = d[y].k => x = y

RECURSIVE Concat(_)
Concat(ss) == IF ss = <<>> THEN <<>> ELSE Head(ss) \o Concat(Tail(ss))

\* ---------------------------------------------------- WebexApi.GetDuties
\* A remote event: [id, name, startDate, startTime, endDate, endTime].
EventEndTs(event) == Strptime(event.endDate, event.endTime)
EventStartTs(event) == Strptime(event.startDate, event.startTime)

\* min_duty_end_ts: <<>> is None, <<ts>> a cutoff
None == <<>>
Expired(event, min_duty_end_ts) ==
    min_duty_end_ts # None /\ EventEndTs(event) < min_duty_end_ts[1]

\* one round of the while loop (lines 284-289): the duty starting at start_ts
\* and the start of the following shift
StepDuty(start_ts) ==
    IF TimeOf(start_ts) = DAY_SHIFT_START
    THEN Duty(DateOf(start_ts), day)
    ELSE Duty(DateOf(start_ts), night)
StepNext(start_ts) ==
    IF TimeOf(start_ts) = DAY_SHIFT_START
    THEN Combine(DateOf(start_ts), NIGHT_SHIFT_START)
    ELSE Combine(DateOf(start_ts) + 1, DAY_SHIFT_START)

\* a faulty variant of WalkEvent: a duty that is already claimed goes to the later event
RECURSIVE WalkEventKeepLast(_, _, _, _)
WalkEventKeepLast(event, start_ts, end_ts, event_by_duty) ==
    IF ~(start_ts < end_ts)
    THEN [err |-> "none", event_by_duty |-> event_by_duty]
    ELSE LET duty == StepDuty(start_ts)
             next == StepNext(start_ts)
             ebd  == D_Put(event_by_duty, duty, event)
         IN  IF next > end_ts
             THEN [err |-> "end", event_by_duty |-> ebd]
             ELSE WalkEventKeepLast(event, next, end_ts, ebd)

\* the while loop of one event (lines 283-295): [err, event_by_duty]
RECURSIVE WalkEvent(_, _, _, _)
WalkEvent(event, start_ts, end_ts, event_by_duty) ==
    IF ~(start_ts < end_ts)
    THEN [err |-> "none", event_by_duty |-> event_by_duty]
    ELSE LET duty == StepDuty(start_ts)
             next == StepNext(start_ts)
         IN  IF D_Has(event_by_duty, duty)
             THEN [err |-> "conflict", event_by_duty |-> event_by_duty]
             ELSE LET ebd == D_Put(event_by_duty, duty, event)
                  IN  IF next > end_ts
                      THEN [err |-> "end", event_by_duty |-> ebd]
                      ELSE WalkEvent(event, next, end_ts, ebd)

\* the for loop over the events of the GET response (lines 275-296).
\* fail_at: the number of the remote call that fails (0: none fails).
\* Result: [err, event_by_duty, deleted]; err = "none" is a normal return.
\* Remote calls are numbered from 1: the GET is call 1, the k-th DELETE call k+1.
RECURSIVE ParseEvents(_, _, _, _, _, _)
ParseEvents(events, n, min_duty_end_ts, fail_at, event_by_duty, deleted) ==
    IF n > Len(events)
    THEN [err |-> "none", event_by_duty |-> event_by_duty, deleted |-> deleted]
    ELSE LET event == events[n]
         IN  IF Expired(event, min_duty_end_ts)
             THEN IF fail_at = Len(deleted) + 2
                  THEN [err |-> "transport", event_by_duty |-> event_by_duty, deleted |-> deleted]
                  ELSE ParseEvents(events, n + 1, min_duty_end_ts, fail_at,
                                   event_by_duty, Append(deleted, event.id))
             ELSE IF event.startTime \notin SHIFT_TIME_STRINGS
             THEN [err |-> "start", event_by_duty |-> event_by_duty, deleted |-> deleted]
             ELSE LET w == WalkEvent(event, EventStartTs(event), EventEndTs(event), event_by_duty)
                  IN  IF w.err # "none"
                      THEN [err |-> w.err, event_by_duty |-> w.event_by_duty, deleted |-> deleted]
                      ELSE ParseEvents(events, n + 1, min_duty_end_ts, fail_at,
                                       w.event_by_duty, deleted)

\* GetDuties(location_id, schedule_id, min_duty_end_ts) on a schedule that
\* holds `events`: the GET (line 275), then the loop
GetDuties(events, min_duty_end_ts, fail_at) ==
    IF fail_at = 1
    THEN [err |-> "transport", event_by_duty |-> <<>>, deleted |-> <<>>]
    ELSE ParseEvents(events, 1, min_duty_end_ts, fail_at, <<>>, <<>>)

\* ------------------------------------------- Upload: merge-and-create
\* duties.sort() (line 339): ascending by (date, shift)
RECURSIVE SortDuties(_)
SortDuties(duties) ==
    IF duties = <<>> THEN <<>>
    ELSE LET m == CHOOSE x \in DOMAIN duties :
                      \A y \in DOMAIN duties :
                          ~DutyLess(duties[y], duties[x]) \/ duties[y] = duties[x]
             rest == [x \in 1..(Len(duties) - 1) |->
                          IF x < m THEN duties[x] ELSE duties[x + 1]]
         IN  <<duties[m]>> \o SortDuties(rest)

\* times = [DutyBeginEnd(d) for d in duties] (line 340)
Times(duties) == [x \in DOMAIN duties |-> DutyBeginEnd(duties[x])]

\* a faulty variant of ExtendRun: contiguous duties are never merged
ExtendRunNoMerge(times, end) == end

\* the inner while loop (lines 346-347): the end of the run that holds end-1
RECURSIVE ExtendRun(_, _)
ExtendRun(times, end) ==
    IF end < Len(times) /\ times[end][2] = times[end + 1][1]
    THEN ExtendRun(times, end + 1)
    ELSE end

\* the outer while loop (lines 342-350); start and end are 0-based as in the
\* source, so duties[start:end] is SubSeq(duties, start + 1, end)
RECURSIVE MergeLoop(_, _, _, _, _)
MergeLoop(duties, times, start, end, merged_duties) ==
    IF ~(end <= Len(duties))
    THEN merged_duties
    ELSE LET e == ExtendRun(times, end)
         IN  MergeLoop(duties, times, e, e + 1,
                       Append(merged_duties, SubSeq(duties, start + 1, e)))

MergedDuties(duties) == MergeLoop(duties, Times(duties), 0, 1, <<>>)

\* a faulty variant of RunEvent: the end is always the first duty's end
RunEventFirstEnd(event_duties) ==
    LET first == event_duties[1]
        last  == event_duties[Len(event_duties)]
        begin == DutyBeginEnd(first)[1]
        end   == DutyBeginEnd(first)[2]
    IN  [name      |-> IF Len(event_duties) > 1
                       THEN <<DutyName(first), "-", DutyName(last)>>
                       ELSE <<DutyName(first)>>,
         startDate |-> DateOf(begin), startTime |-> TimeOf(begin),
         endDate   |-> DateOf(end),   endTime   |-> TimeOf(end)]

\* the event of one run (lines 353-358); the remote system assigns the id
RunEvent(event_duties) ==
    LET first == event_duties[1]
        last  == event_duties[Len(event_duties)]
        begin == DutyBeginEnd(first)[1]
        end   == IF Len(event_duties) > 1
                 THEN DutyBeginEnd(last)[2] ELSE DutyBeginEnd(first)[2]
    IN  [name      |-> IF Len(event_duties) > 1
                       THEN <<DutyName(first), "-", DutyName(last)>>
                       ELSE <<DutyName(first)>>,
         startDate |-> DateOf(begin), startTime |-> TimeOf(begin),
         endDate   |-> DateOf(end),   endTime   |-> TimeOf(end)]

\* lines 339-358: the events posted for one person's list of duties
MergeEvents(duties) ==
    LET merged_duties == MergedDuties(SortDuties(duties))
    IN  [x \in DOMAIN merged_duties |-> RunEvent(merged_duties[x])]

\* the remote system stores a posted event under a new id
WithId(event, id) ==
    [id |-> id, name |-> event.name,
     startDate |-> event.startDate, startTime |-> event.startTime,
     endDate |-> event.endDate, endTime |-> event.endTime]

\* ------------------------------------------------------------- state
VARIABLES
    remote,     \* the remote system: schedules, rules, the next fresh id
    attendant,  \* the AutoAttendant object: id, location_id, rule_by_midwife
    up,         \* the running Upload call: its arguments, locals and position
    log,        \* the remote calls issued so far, in order
    pre,        \* the rule set as it was when the Upload call started
    px,         \* GetDuties / merge applied to a drawn input
    roster,     \* a DutyRoster object
    rop         \* the last DutyRoster call and how it ended

vars == <<remote, attendant, up, log, pre, px, roster, rop>>

Dates == 0..MaxDate
Duties == {Duty(d, st) : d \in Dates, st \in Shift}

\* objects not in use by a specification
NoRemote == [schedules |-> <<>>, rules |-> <<>>, next_id |-> 1, edits |-> 0]
NoAttendant == [id |-> 0, location_id |-> 0, rule_by_midwife |-> <<>>]
NoUpload == [pc |-> "none"]
NoPx == [kind |-> "none"]
NoRoster == [dates |-> <<>>, midwife_by_duty |-> <<>>, midwife_by_name |-> <<>>]
NoRop == <<>>

\* ------------------------------------------------ the shift grid (spec)
\* The grid as the specification states it, written without the program's
\* operators: a day shift is [10:00, 20:00) of its date, a night shift
\* [20:00, 10:00 of the next date).
GridBegin(d) == HoursPerDay * d.date + (IF d.shift = day THEN 10 ELSE 20)
GridEnd(d) == IF d.shift = day THEN HoursPerDay * d.date + 20
                               ELSE HoursPerDay * (d.date + 1) + 10
\* b is the slot that directly follows a
Follows(a, b) == \/ a.shift = day /\ b = Duty(a.date, night)
                 \/ a.shift = night /\ b = Duty(a.date + 1, day)
OnGrid(ts) == ts % HoursPerDay \in {10, 20}
\* the duties an event's interval covers: those that begin inside it
AllDuties == {Duty(d, st) : d \in 0..(MaxDate + 1), st \in Shift}
Covered(event) ==
    {d \in AllDuties : EventStartTs(event) <= GridBegin(d) /\ GridBegin(d) < EventEndTs(event)}

\* ------------------------------------------------ the remote system
\* remote.schedules: a list of [id, name, type, events]; remote.rules: a list
\* of [id, name, enabled, forwardTo, holidaySchedule]; ids are handed out from
\* remote.next_id; remote.edits counts the changes other clients made.  A call on an object that does not exist is answered with
\* an error status; any call may also fail in transport.
HasSchedule(r, schedule_id) == \E x \in DOMAIN r.schedules : r.schedules[x].id = schedule_id
ScheduleIndex(r, schedule_id) == CHOOSE x \in DOMAIN r.schedules : r.schedules[x].id = schedule_id
ScheduleEvents(r, schedule_id) == r.schedules[ScheduleIndex(r, schedule_id)].events
HasEvent(r, schedule_id, event_id) ==
    /\ HasSchedule(r, schedule_id)
    /\ \E e \in Range(ScheduleEvents(r, schedule_id)) : e.id = event_id

\* DELETE locations/{l}/schedules/holidays/{schedule_id}/events/{event_id}
RemoteDeleteEvent(r, schedule_id, event_id) ==
    LET x == ScheduleIndex(r, schedule_id)
    IN  [r EXCEPT !.schedules[x].events = SelectSeq(@, LAMBDA e : e.id # event_id)]

\* POST locations/{l}/schedules/holidays/{schedule_id}/events
RemotePostEvent(r, schedule_id, event) ==
    LET x == ScheduleIndex(r, schedule_id)
    IN  [r EXCEPT !.schedules[x].events = Append(@, WithId(event, r.next_id)),
                  !.next_id = @ + 1]

\* POST locations/{l}/schedules with {'type', 'name', 'events'}; the new
\* schedule gets r.next_id, its events the ids after it
RemotePostSchedule(r, type, name, events) ==
    [r EXCEPT !.schedules = Append(@, [id |-> r.next_id, name |-> name, type |-> type,
                                       events |-> [x \in DOMAIN events |->
                                                      WithId(events[x], r.next_id + x)]]),
              !.next_id = @ + 1 + Len(events)]

\* POST .../callForwarding/selectiveRules
RemotePostRule(r, rule) ==
    [r EXCEPT !.rules = Append(@, [id |-> r.next_id, name |-> rule.name,
                                   enabled |-> rule.enabled, forwardTo |-> rule.forwardTo,
                                   holidaySchedule |-> rule.holidaySchedule]),
              !.next_id = @ + 1]

\* ------------------------------------------------------ AutoAttendant
Midwife(name, phone) == [name |-> name, phone |-> phone]
AttendantRule(id, schedule_name, schedule_id, event_by_duty) ==
    [id |-> id, schedule_name |-> schedule_name, schedule_id |-> schedule_id,
     event_by_duty |-> event_by_duty]

\* AutoAttendant.AddRule: [err, rule_by_midwife]
AddRule(rule_by_midwife, midwife, attendant_rule) ==
    IF D_Has(rule_by_midwife, midwife)
    THEN [err |-> "duplicate_rule", rule_by_midwife |-> rule_by_midwife]
    ELSE [err |-> "none", rule_by_midwife |-> D_Put(rule_by_midwife, midwife, attendant_rule)]

\* schedule_id_by_name of GetAutoAttendant (lines 303-306)
RECURSIVE ScheduleIdByName(_, _, _)
ScheduleIdByName(schedules, n, acc) ==
    IF n > Len(schedules) THEN acc
    ELSE ScheduleIdByName(schedules, n + 1,
                          IF schedules[n].type = "holidays"
                          THEN D_Put(acc, schedules[n].name, schedules[n].id) ELSE acc)

\* the loop over the rules of GetAutoAttendant (lines 307-314), no remote call
\* failing: [err, rule_by_midwife, remote]
RECURSIVE LoadRules(_, _, _, _, _)
LoadRules(r, n, schedule_id_by_name, min_duty_end_ts, rule_by_midwife) ==
    IF n > Len(r.rules)
    THEN [err |-> "none", rule_by_midwife |-> rule_by_midwife, remote |-> r]
    ELSE LET rule == r.rules[n]
         IN  IF ~rule.enabled
             THEN LoadRules(r, n + 1, schedule_id_by_name, min_duty_end_ts, rule_by_midwife)
             ELSE IF ~D_Has(schedule_id_by_name, rule.holidaySchedule)
             THEN [err |-> "no_schedule", rule_by_midwife |-> rule_by_midwife, remote |-> r]
             ELSE LET schedule_id == D_Get(schedule_id_by_name, rule.holidaySchedule)
                      g == GetDuties(ScheduleEvents(r, schedule_id), min_duty_end_ts, 0)
                      r2 == [r EXCEPT !.schedules[ScheduleIndex(r, schedule_id)].events =
                                SelectSeq(@, LAMBDA e : e.id \notin Range(g.deleted))]
                      a == AddRule(rule_by_midwife, Midwife(rule.name, rule.forwardTo),
                                   AttendantRule(rule.id, rule.holidaySchedule, schedule_id,
                                                 g.event_by_duty))
                  IN  IF g.err # "none"
                      THEN [err |-> g.err, rule_by_midwife |-> rule_by_midwife, remote |-> r2]
                      ELSE IF a.err # "none"
                      THEN [err |-> a.err, rule_by_midwife |-> rule_by_midwife, remote |-> r2]
                      ELSE LoadRules(r2, n + 1, schedule_id_by_name, min_duty_end_ts,
                                     a.rule_by_midwife)

\* GetAutoAttendant (lines 298-315) on a remote system with `jsons` attendants
\* (a list of [id, locationId]): [err, attendant, remote].  A failed load
\* returns no attendant.
GetAutoAttendant(jsons, r, min_duty_end_ts) ==
    IF Len(jsons) # 1
    THEN [err |-> "attendants", attendant |-> NoAttendant, remote |-> r]
    ELSE LET l == LoadRules(r, 1, ScheduleIdByName(r.schedules, 1, <<>>),
                            min_duty_end_ts, <<>>)
         IN  IF l.err # "none"
             THEN [err |-> l.err, attendant |-> NoAttendant, remote |-> l.remote]
             ELSE [err |-> "none",
                   attendant |-> [id |-> jsons[1].id, location_id |-> jsons[1].locationId,
                                  rule_by_midwife |-> l.rule_by_midwife],
                   remote |-> l.remote]

\* the duties a person's rule covers in a rule set (none without a rule)
CoveredBy(rule_by_midwife, midwife) ==
    IF D_Has(rule_by_midwife, midwife)
    THEN D_Keys(D_Get(rule_by_midwife, midwife).event_by_duty)
    ELSE {}

\* ------------------------------------ Upload: removals and additions
\* the keys of duties_by_id (lines 322-324) in insertion order
RECURSIVE EventIds(_, _, _)
EventIds(event_by_duty, n, acc) ==
    IF n > Len(event_by_duty) THEN acc
    ELSE EventIds(event_by_duty, n + 1,
                  IF event_by_duty[n].v.id \in Range(acc) THEN acc
                  ELSE Append(acc, event_by_duty[n].v.id))

\* duties_by_id[event_id]
DutiesById(event_by_duty, event_id) ==
    LET entries == SelectSeq(event_by_duty, LAMBDA e : e.v.id = event_id)
    IN  [x \in DOMAIN entries |-> entries[x].k]

\* a faulty variant of RemoveIds: only an event's first duty is looked up
RemoveIdsFirstDuty(event_by_duty, midwife_by_duty) ==
    SelectSeq(EventIds(event_by_duty, 1, <<>>),
              LAMBDA id : D_Has(midwife_by_duty, DutiesById(event_by_duty, id)[1]))

\* a faulty variant of RemoveIds: every event of a rule with a changed duty
\* is removed
RemoveIdsWholeRule(event_by_duty, midwife_by_duty) ==
    IF \E d \in D_Keys(event_by_duty) : D_Has(midwife_by_duty, d)
    THEN EventIds(event_by_duty, 1, <<>>)
    ELSE <<>>

\* the event ids one rule contributes to remove_by_midwife (lines 325-327)
RemoveIds(event_by_duty, midwife_by_duty) ==
    SelectSeq(EventIds(event_by_duty, 1, <<>>),
              LAMBDA id : \E d \in Range(DutiesById(event_by_duty, id)) :
                              D_Has(midwife_by_duty, d))

\* a faulty variant of KeepDuties: the deleted events' unchanged duties are not re-added
KeepNothing(event_by_duty, midwife_by_duty) == <<>>

\* the duties one rule contributes to new_duties_by_midwife (lines 328-330)
KeepDuties(event_by_duty, midwife_by_duty) ==
    LET ids == RemoveIds(event_by_duty, midwife_by_duty)
    IN  Concat([x \in DOMAIN ids |->
                   SelectSeq(DutiesById(event_by_duty, ids[x]),
                             LAMBDA d : ~D_Has(midwife_by_duty, d))])

\* the loop over the rules (lines 320-330): [remove_by_midwife, new_duties_by_midwife]
RECURSIVE CollectRules(_, _, _, _, _)
CollectRules(rule_by_midwife, n, midwife_by_duty, remove_by_midwife, new_duties_by_midwife) ==
    IF n > Len(rule_by_midwife)
    THEN [remove_by_midwife |-> remove_by_midwife,
          new_duties_by_midwife |-> new_duties_by_midwife]
    ELSE LET midwife == rule_by_midwife[n].k
             ebd     == rule_by_midwife[n].v.event_by_duty
             ids     == RemoveIds(ebd, midwife_by_duty)
             keep    == KeepDuties(ebd, midwife_by_duty)
         IN  CollectRules(rule_by_midwife, n + 1, midwife_by_duty,
                 IF ids # <<>> THEN D_Put(remove_by_midwife, midwife, ids)
                               ELSE remove_by_midwife,
                 IF keep # <<>> THEN D_Put(new_duties_by_midwife, midwife, keep)
                                ELSE new_duties_by_midwife)

\* the loop over midwife_by_duty (lines 331-332)
RECURSIVE CollectDesired(_, _, _)
CollectDesired(midwife_by_duty, n, new_duties_by_midwife) ==
    IF n > Len(midwife_by_duty) THEN new_duties_by_midwife
    ELSE LET duty == midwife_by_duty[n].k
             mw   == midwife_by_duty[n].v
             old  == IF D_Has(new_duties_by_midwife, mw)
                     THEN D_Get(new_duties_by_midwife, mw) ELSE <<>>
         IN  CollectDesired(midwife_by_duty, n + 1,
                            D_Put(new_duties_by_midwife, mw, Append(old, duty)))

\* ------------------------------------------------------ Upload: steps
\* a faulty variant of RefreshPos: when the creations are through, the last
\* DELETE of the pass is issued once more before the refresh
RefreshPosDeleteAgain(u, rule_by_midwife, m) ==
    IF m = 1 /\ u.pc \in {"post_event", "post_rule"} /\ u.remove_by_midwife # <<>>
    THEN [u EXCEPT !.pc = "delete", !.m = Len(u.remove_by_midwife),
                   !.n = Len(u.remove_by_midwife[Len(u.remove_by_midwife)].v)]
    ELSE IF m > Len(rule_by_midwife)
    THEN [u EXCEPT !.pc = "done", !.m = 0, !.n = 0]
    ELSE [u EXCEPT !.pc = "refresh", !.m = m, !.n = 0]

\* up.pc is the remote call Upload issues next: "delete" (line 337),
\* "post_event" (line 362), "post_schedule" (line 364), "post_rule" (line 366),
\* "refresh" (the GET of line 370); up.m and up.n are the positions of the
\* outer and the inner loop.  "done" is the normal return, "failed" an
\* exception leaving Upload.
RefreshPos(u, rule_by_midwife, m) ==
    IF m > Len(rule_by_midwife)
    THEN [u EXCEPT !.pc = "done", !.m = 0, !.n = 0]
    ELSE [u EXCEPT !.pc = "refresh", !.m = m, !.n = 0]

\* the head of the loop of line 338 for its m-th entry
CreatePos(u, rule_by_midwife, m) ==
    IF m > Len(u.new_duties_by_midwife)
    THEN RefreshPos(u, rule_by_midwife, 1)
    ELSE LET sorted == [u EXCEPT !.new_duties_by_midwife[m].v = SortDuties(@)]
         IN  IF D_Has(rule_by_midwife, u.new_duties_by_midwife[m].k)
             THEN [sorted EXCEPT !.pc = "post_event", !.m = m, !.n = 1]
             ELSE [sorted EXCEPT !.pc = "post_schedule", !.m = m, !.n = 0]

\* the head of the loop of line 334 for its m-th entry
DeletePos(u, rule_by_midwife, m) ==
    IF m > Len(u.remove_by_midwife)
    THEN CreatePos(u, rule_by_midwife, 1)
    ELSE [u EXCEPT !.pc = "delete", !.m = m, !.n = 1]

Call(method, what, midwife, arg, ok) ==
    [method |-> method, what |-> what, midwife |-> midwife, arg |-> arg, ok |-> ok]

\* a faulty variant of Raise: the exception is swallowed and the loop goes on
RaiseSwallowed(u, err) == u

\* an exception leaves Upload: nothing of the pass runs after it
Raise(u, err) == [u EXCEPT !.pc = "failed", !.err = err]

\* lines 318-333: the call Upload(auto_attendant, midwife_by_duty) up to its
\* first remote call
Upload_Begin(midwife_by_duty) ==
    /\ up.pc = "idle"
    /\ LET c == CollectRules(attendant.rule_by_midwife, 1, midwife_by_duty, <<>>, <<>>)
           u == [pc |-> "idle", err |-> "none", m |-> 0, n |-> 0, schedule_id |-> 0,
                 midwife_by_duty |-> midwife_by_duty,
                 remove_by_midwife |-> c.remove_by_midwife,
                 new_duties_by_midwife |->
                     CollectDesired(midwife_by_duty, 1, c.new_duties_by_midwife)]
       IN  up' = DeletePos(u, attendant.rule_by_midwife, 1)
    /\ pre' = attendant.rule_by_midwife
    /\ UNCHANGED <<remote, attendant, log, px, roster, rop>>

\* line 337: one DELETE of the loop of lines 334-337
Upload_Delete ==
    /\ up.pc = "delete"
    /\ LET midwife  == up.remove_by_midwife[up.m].k
           event_id == up.remove_by_midwife[up.m].v[up.n]
           rule     == D_Get(attendant.rule_by_midwife, midwife)
       IN  \E transport_ok \in BOOLEAN :
             LET ok == transport_ok /\ HasEvent(remote, rule.schedule_id, event_id)
             IN  /\ log' = Append(log, Call("DELETE", "event", midwife, event_id, ok))
                 /\ IF ok
                    THEN /\ remote' = RemoteDeleteEvent(remote, rule.schedule_id, event_id)
                         /\ up' = IF up.n < Len(up.remove_by_midwife[up.m].v)
                                  THEN [up EXCEPT !.n = @ + 1]
                                  ELSE DeletePos(up, attendant.rule_by_midwife, up.m + 1)
                    ELSE /\ remote' = remote
                         /\ up' = Raise(up, "transport")
    /\ UNCHANGED <<attendant, pre, px, roster, rop>>

\* line 362: one POST of an event under the existing schedule of a person
\* who owns a rule
Upload_PostEvent ==
    /\ up.pc = "post_event"
    /\ LET midwife     == up.new_duties_by_midwife[up.m].k
           events      == MergeEvents(up.new_duties_by_midwife[up.m].v)
           schedule_id == D_Get(attendant.rule_by_midwife, midwife).schedule_id
       IN  \E transport_ok \in BOOLEAN :
             LET ok == transport_ok /\ HasSchedule(remote, schedule_id)
             IN  /\ log' = Append(log, Call("POST", "event", midwife, events[up.n], ok))
                 /\ IF ok
                    THEN /\ remote' = RemotePostEvent(remote, schedule_id, events[up.n])
                         /\ up' = IF up.n < Len(events)
                                  THEN [up EXCEPT !.n = @ + 1]
                                  ELSE CreatePos(up, attendant.rule_by_midwife, up.m + 1)
                    ELSE /\ remote' = remote
                         /\ up' = Raise(up, "transport")
    /\ UNCHANGED <<attendant, pre, px, roster, rop>>

\* line 364: the POST of a new schedule, with its events, for a person who
\* owns no rule
Upload_PostSchedule ==
    /\ up.pc = "post_schedule"
    /\ LET midwife == up.new_duties_by_midwife[up.m].k
           events  == MergeEvents(up.new_duties_by_midwife[up.m].v)
       IN  \E ok \in BOOLEAN :
             /\ log' = Append(log, Call("POST", "schedule", midwife, events, ok))
             /\ IF ok
                THEN /\ remote' = RemotePostSchedule(remote, "holidays", midwife.name, events)
                     /\ up' = [up EXCEPT !.pc = "post_rule", !.schedule_id = remote.next_id]
                ELSE /\ remote' = remote
                     /\ up' = Raise(up, "transport")
    /\ UNCHANGED <<attendant, pre, px, roster, rop>>

\* lines 365-367: the POST of the new rule and AddRule
Upload_PostRule ==
    /\ up.pc = "post_rule"
    /\ LET midwife == up.new_duties_by_midwife[up.m].k
           rule    == [name |-> midwife.name, enabled |-> TRUE,
                       holidaySchedule |-> midwife.name, forwardTo |-> midwife.phone]
       IN  \E ok \in BOOLEAN :
             /\ log' = Append(log, Call("POST", "rule", midwife, rule, ok))
             /\ IF ok
                THEN LET a == AddRule(attendant.rule_by_midwife, midwife,
                                      AttendantRule(remote.next_id, midwife.name,
                                                    up.schedule_id, <<>>))
                     IN  /\ remote' = RemotePostRule(remote, rule)
                         /\ attendant' = [attendant EXCEPT !.rule_by_midwife = a.rule_by_midwife]
                         /\ up' = IF a.err # "none" THEN Raise(up, a.err)
                                  ELSE CreatePos(up, a.rule_by_midwife, up.m + 1)
                ELSE /\ remote' = remote
                     /\ attendant' = attendant
                     /\ up' = Raise(up, "transport")
    /\ UNCHANGED <<pre, px, roster, rop>>

\* lines 369-370 for one rule: clear the cached map, then GetDuties without a
\* cutoff and update the map with what it returns
Upload_Refresh ==
    /\ up.pc = "refresh"
    /\ LET midwife == attendant.rule_by_midwife[up.m].k
           rule    == attendant.rule_by_midwife[up.m].v
       IN  \E transport_ok \in BOOLEAN :
             LET ok == transport_ok /\ HasSchedule(remote, rule.schedule_id)
                 g  == IF ok THEN GetDuties(ScheduleEvents(remote, rule.schedule_id), None, 0)
                       ELSE GetDuties(<<>>, None, 1)
             IN  /\ log' = Append(log, Call("GET", "schedule", midwife, rule.schedule_id, ok))
                 /\ IF g.err = "none"
                    THEN /\ attendant' = [attendant EXCEPT
                                !.rule_by_midwife[up.m].v.event_by_duty = g.event_by_duty]
                         /\ up' = RefreshPos(up, attendant.rule_by_midwife, up.m + 1)
                    ELSE /\ attendant' = [attendant EXCEPT
                                !.rule_by_midwife[up.m].v.event_by_duty = <<>>]
                         /\ up' = Raise(up, g.err)
    /\ UNCHANGED <<remote, pre, px, roster, rop>>

\* ----------------------------------------------- Upload: specification
\* the people: A and B own a rule and a schedule when Upload starts, C owns none
Names == {"A", "B", "C"}
RuledNames == <<"A", "B">>
PhoneOf(name) == <<"tel", name>>
Midwives == {Midwife(n, PhoneOf(n)) : n \in Names}

\* the k-th slot of the grid, from slot 0 = the day shift of date 0
SlotDuty(k) == Duty(k \div Cardinality(Shift), k % Cardinality(Shift))
LastSlot == Cardinality(Duties) - 1
SlotEvent(a, b) ==
    [name |-> <<"x">>,
     startDate |-> GridBegin(SlotDuty(a)) \div HoursPerDay,
     startTime |-> GridBegin(SlotDuty(a)) % HoursPerDay,
     endDate |-> GridEnd(SlotDuty(b)) \div HoursPerDay,
     endTime |-> GridEnd(SlotDuty(b)) % HoursPerDay]

\* at most n events [owner, event] that follow each other on the grid from
\* slot `from` on without sharing a slot (adjacent events are allowed)
RECURSIVE Chains(_, _)
Chains(n, from) ==
    IF n = 0 THEN {<<>>}
    ELSE {<<>>} \cup
         UNION {{<<[owner |-> o, event |-> SlotEvent(a, b)]>> \o c :
                    c \in IF a <= b THEN Chains(n - 1, b + 1) ELSE {}} :
                   a \in from..LastSlot, o \in Range(RuledNames), b \in from..LastSlot} 

\* the remote system holding the events of a chain: a schedule and an enabled
\* rule per owner
RemoteOf(chain) ==
    LET nr     == Len(RuledNames)
        withId == [x \in DOMAIN chain |->
                      [owner |-> chain[x].owner, event |-> WithId(chain[x].event, nr + nr + x)]]
        own(o) == SelectSeq(withId, LAMBDA c : c.owner = o)
    IN  [schedules |-> [x \in DOMAIN RuledNames |->
                           [id |-> x, name |-> RuledNames[x], type |-> "holidays",
                            events |-> [y \in DOMAIN own(RuledNames[x]) |->
                                           own(RuledNames[x])[y].event]]],
         rules |-> [x \in DOMAIN RuledNames |->
                       [id |-> nr + x, name |-> RuledNames[x], enabled |-> TRUE,
                        forwardTo |-> PhoneOf(RuledNames[x]),
                        holidaySchedule |-> RuledNames[x]]],
         next_id |-> nr + nr + Len(chain) + 1,
         edits |-> 0]

\* GHI.__init__ (line 388): the cutoff of the load; date 0 is its date
LoadCutoff == <<Combine(0, NIGHT_SHIFT_START)>>
TheAttendant == <<[id |-> "attendant", locationId |-> "location"]>>

RECURSIVE SortedSeq(_)
SortedSeq(S) ==
    IF S = {} THEN <<>>
    ELSE LET m == CHOOSE x \in S : \A y \in S : y = x \/ DutyLess(x, y)
         IN  <<m>> \o SortedSeq(S \ {m})

\* the arguments midwife_by_duty: at most MaxChanges duties, in the order
\* of UploadForwardings' loop over box_by_duty (by date, then shift)
DesiredInputs ==
    UNION {{[x \in 1..Cardinality(S) |-> [k |-> SortedSeq(S)[x], v |-> f[SortedSeq(S)[x]]]] :
               f \in [S -> Midwives]} :
           S \in {T \in SUBSET Duties : Cardinality(T) <= MaxChanges}}

\* after GHI.__init__: the attendant was loaded from a remote system in which
\* no two events share a duty
Init ==
    /\ \E chain \in Chains(MaxEvents, 0) :
          LET l == GetAutoAttendant(TheAttendant, RemoteOf(chain), LoadCutoff)
          IN  /\ l.err = "none"
              /\ remote = l.remote
              /\ attendant = l.attendant
    /\ up = [pc |-> "idle"]
    /\ log = <<>> /\ pre = <<>>
    /\ px = NoPx /\ roster = NoRoster /\ rop = NoRop

Next ==
    \/ \E midwife_by_duty \in DesiredInputs : Upload_Begin(midwife_by_duty)
    \/ Upload_Delete
    \/ Upload_PostEvent
    \/ Upload_PostSchedule
    \/ Upload_PostRule
    \/ Upload_Refresh

Spec == Init /\ [][Next]_vars

\* ------------------------------------- Upload on one long merged event
\* A owns one event over MergedDays whole dates from date s (0 or 1) on; B
\* owns nothing or an event on the one date the window leaves free; the
\* desired assignment gives both duties of the window's ChangedDay-th date to
\* B or to C.
MergedDays == 5
ChangedDay == 3

Both == Cardinality(Shift)
WindowChain(s) == <<[owner |-> "A", event |-> SlotEvent(Both * s, Both * (s + MergedDays) - 1)]>>
FreeDate(s) == IF s = 0 THEN MergedDays ELSE 0
FreeChains(s) ==
    {<<>>} \cup {<<[owner |-> "B", event |-> SlotEvent(a, b)]>> :
                    a \in {Both * FreeDate(s), Both * FreeDate(s) + 1},
                    b \in {Both * FreeDate(s) + 1}}

InitMin ==
    /\ \E s \in {0, 1} : \E free \in FreeChains(s) :
          LET l == GetAutoAttendant(TheAttendant, RemoteOf(WindowChain(s) \o free), LoadCutoff)
          IN  /\ l.err = "none"
              /\ remote = l.remote
              /\ attendant = l.attendant
    /\ up = [pc |-> "idle"]
    /\ log = <<>> /\ pre = <<>>
    /\ px = NoPx /\ roster = NoRoster /\ rop = NoRop

MidwifeA == Midwife("A", PhoneOf("A"))
\* the first date of A's event
WindowStart(rule_by_midwife) ==
    CHOOSE d \in 0..1 : Duty(d, day) \in CoveredBy(rule_by_midwife, MidwifeA)
                        /\ (d = 0 \/ Duty(0, day) \notin CoveredBy(rule_by_midwife, MidwifeA))
DayChange(date, other) ==
    <<[k |-> Duty(date, day), v |-> other], [k |-> Duty(date, night), v |-> other]>>

NextMin ==
    \/ \E other \in Midwives \ {MidwifeA} :
          Upload_Begin(DayChange(WindowStart(attendant.rule_by_midwife) + ChangedDay - 1, other))
    \/ Upload_Delete
    \/ Upload_PostEvent
    \/ Upload_PostSchedule
    \/ Upload_PostRule
    \/ Upload_Refresh

SpecMin == InitMin /\ [][NextMin]_vars

\* -------------------------- Upload after another client's change
\* The remote system is shared: between the load and the Upload call another
\* client (the provider's admin page, a second installation) may add an event
\* to a schedule, which the cached event maps then do not show.
MaxEdits == 1

EditEvents == {SlotEvent(a, a) : a \in 0..LastSlot}

RemoteEdit ==
    /\ up.pc = "idle" /\ remote.edits < MaxEdits
    /\ \E x \in DOMAIN remote.schedules : \E event \in EditEvents :
          remote' = [RemotePostEvent(remote, remote.schedules[x].id, event)
                        EXCEPT !.edits = @ + 1]
    /\ UNCHANGED <<attendant, up, log, pre, px, roster, rop>>

InitEdit ==
    /\ \E chain \in Chains(MaxEvents - 1, 0) :
          LET l == GetAutoAttendant(TheAttendant, RemoteOf(chain), LoadCutoff)
          IN  /\ l.err = "none"
              /\ remote = l.remote
              /\ attendant = l.attendant
    /\ up = [pc |-> "idle"]
    /\ log = <<>> /\ pre = <<>>
    /\ px = NoPx /\ roster = NoRoster /\ rop = NoRop

NextEdit ==
    \/ RemoteEdit
    \/ \E midwife_by_duty \in DesiredInputs : Upload_Begin(midwife_by_duty)
    \/ Upload_Delete
    \/ Upload_PostEvent
    \/ Upload_PostSchedule
    \/ Upload_PostRule
    \/ Upload_Refresh

SpecEdit == InitEdit /\ [][NextEdit]_vars

\* ---------------------------------------------------------- DutyRoster
\* A name is a sequence of characters; str.lower() maps each character.
LowerChar(c) ==
    CASE c = "A" -> "a" [] c = "N" -> "n" [] c = "B" -> "b" [] c = "E" -> "e"
      [] OTHER -> c
Lower(name) == [x \in DOMAIN name |-> LowerChar(name[x])]

\* DutyRoster.__init__ (lines 67-70)
DutyRoster(dates) == [dates |-> dates, midwife_by_duty |-> <<>>, midwife_by_name |-> <<>>]

\* a faulty variant of AddMidwife: the name is looked up as written
AddMidwifeCaseSensitive(r, midwife) ==
    LET name == midwife.name
    IN  IF D_Has(r.midwife_by_name, name)
        THEN [err |-> "duplicate_person", roster |-> r]
        ELSE [err |-> "none",
              roster |-> [r EXCEPT !.midwife_by_name = D_Put(@, name, midwife)]]

\* DutyRoster.AddMidwife (lines 72-76): [err, roster]
AddMidwife(r, midwife) ==
    LET name == Lower(midwife.name)
    IN  IF D_Has(r.midwife_by_name, name)
        THEN [err |-> "duplicate_person", roster |-> r]
        ELSE [err |-> "none",
              roster |-> [r EXCEPT !.midwife_by_name = D_Put(@, name, midwife)]]

\* DutyRoster.Add (lines 78-81): [err, roster]
Add(r, midwife, duty) ==
    IF D_Has(r.midwife_by_duty, duty)
    THEN [err |-> "duplicate_duty", roster |-> r]
    ELSE [err |-> "none",
          roster |-> [r EXCEPT !.midwife_by_duty = D_Put(@, duty, midwife)]]

\* DutyRoster.GetMidwife (lines 88-89): <<>> is None
GetMidwife(r, name) ==
    IF D_Has(r.midwife_by_name, Lower(name))
    THEN <<D_Get(r.midwife_by_name, Lower(name))>> ELSE <<>>

\* ShiftName (lines 46-47)
ShiftName(shift) == IF shift = day THEN "Tag" ELSE "Nacht"

\* one entry of Check's list (line 86): the f-string's parts, the date
\* formatted by %d.%m.%Y being the date itself
GapReport(d) == <<"Niemand hat ", ShiftName(d.shift), "schicht am ", d.date>>

\* a faulty variant of Check: the assigned duties are not taken out
CheckAllDuties(r) ==
    LET duties == {Duty(d, st) : d \in Range(r.dates), st \in Shift}
        sorted == SortedSeq(duties)
    IN  [x \in DOMAIN sorted |-> GapReport(sorted[x])]

\* DutyRoster.Check (lines 83-86)
Check(r) ==
    LET duties == {Duty(d, st) : d \in Range(r.dates), st \in Shift}
                      \ D_Keys(r.midwife_by_duty)
        sorted == SortedSeq(duties)
    IN  [x \in DOMAIN sorted |-> GapReport(sorted[x])]

MaxRosterCalls == 4
RosterMaxDate == 0
RosterDuties == {Duty(d, st) : d \in 0..RosterMaxDate, st \in Shift}
RosterNames == {<<"A", "n">>, <<"a", "N">>, <<"B", "e">>}
RosterMidwives == {Midwife(n, <<"tel", Lower(n)>>) : n \in RosterNames}

InitRoster ==
    /\ roster = DutyRoster([x \in 1..(RosterMaxDate + 1) |-> x - 1])
    /\ rop = <<>>
    /\ remote = NoRemote /\ attendant = NoAttendant /\ up = NoUpload
    /\ log = <<>> /\ pre = <<>> /\ px = NoPx

\* a call roster.AddMidwife(midwife); rop records the calls and their ends
Call_AddMidwife ==
    /\ Len(rop) < MaxRosterCalls
    /\ \E midwife \in RosterMidwives :
          LET a == AddMidwife(roster, midwife)
          IN  /\ roster' = a.roster
              /\ rop' = Append(rop, [op |-> "AddMidwife", midwife |-> midwife,
                                     duty |-> <<>>, err |-> a.err])
    /\ UNCHANGED <<remote, attendant, up, log, pre, px>>

\* a call roster.Add(midwife, duty)
Call_Add ==
    /\ Len(rop) < MaxRosterCalls
    /\ \E midwife \in RosterMidwives : \E duty \in RosterDuties :
          LET a == Add(roster, midwife, duty)
          IN  /\ roster' = a.roster
              /\ rop' = Append(rop, [op |-> "Add", midwife |-> midwife,
                                     duty |-> duty, err |-> a.err])
    /\ UNCHANGED <<remote, attendant, up, log, pre, px>>

NextRoster == Call_AddMidwife \/ Call_Add

SpecRoster == InitRoster /\ [][NextRoster]_vars

\* ------------------------------------------------- DutyRoster.Check
\* A roster over any ascending list of dates of 0..CheckMaxDate (a workbook's
\* dates are consecutive, those of ForwardingRoster may leave dates out);
\* Add may be called for a duty of any of the dates, in the list or not.
\* Here rop holds the last call when it was Check, with the list it returned.
CheckMaxDate == 1

CheckDates == 0..CheckMaxDate
CheckDuties == {Duty(d, st) : d \in CheckDates, st \in Shift}
CheckMidwives == {Midwife(n, <<"tel", Lower(n)>>) : n \in {<<"A", "n">>, <<"B", "e">>}}

\* sorted(dates) (line 174)
RECURSIVE SortedDates(_)
SortedDates(S) ==
    IF S = {} THEN <<>>
    ELSE LET m == CHOOSE x \in S : \A y \in S : x <= y
         IN  <<m>> \o SortedDates(S \ {m})

InitCheck ==
    /\ \E S \in SUBSET CheckDates : roster = DutyRoster(SortedDates(S))
    /\ rop = <<>>
    /\ remote = NoRemote /\ attendant = NoAttendant /\ up = NoUpload
    /\ log = <<>> /\ pre = <<>> /\ px = NoPx

\* a call roster.Add(midwife, duty) that returns normally
Check_Add ==
    /\ \E midwife \in CheckMidwives : \E duty \in CheckDuties :
          LET a == Add(roster, midwife, duty)
          IN  /\ a.err = "none"
              /\ roster' = a.roster
    /\ rop' = <<>>
    /\ UNCHANGED <<remote, attendant, up, log, pre, px>>

\* a call roster.Check()
Call_Check ==
    /\ rop = <<>>
    /\ rop' = <<[op |-> "Check", out |-> Check(roster)]>>
    /\ UNCHANGED <<remote, attendant, up, log, pre, px, roster>>

NextCheck == Check_Add \/ Call_Check

SpecCheck == InitCheck /\ [][NextCheck]_vars

\* --------------------------------------------- GetDuties / merge inputs
\* hours an event's time fields are drawn from: the grid and one off-grid
Hours == {DAY_SHIFT_START, DAY_SHIFT_START + 1, NIGHT_SHIFT_START}

EventUniverse ==
    {[name |-> <<"x">>, startDate |-> sd, startTime |-> st, endDate |-> ed, endTime |-> et] :
        sd \in Dates, st \in Hours, ed \in 0..(MaxDate + 1), et \in Hours}

RECURSIVE SeqsUpTo(_, _)
SeqsUpTo(S, n) ==
    IF n = 0 THEN {<<>>}
    ELSE LET shorter == SeqsUpTo(S, n - 1)
         IN  shorter \cup {Append(q, x) : q \in {r \in shorter : Len(r) = n - 1}, x \in S}

\* event lists of at most n events as a GET returns them: the ids are distinct
EventLists(n) ==
    {[x \in DOMAIN q |-> WithId(q[x], x)] : q \in SeqsUpTo(EventUniverse, n)}

Cutoffs == {None} \cup {<<Combine(d, NIGHT_SHIFT_START)>> : d \in Dates}

Idle ==
    /\ remote = NoRemote /\ attendant = NoAttendant /\ up = NoUpload
    /\ log = <<>> /\ pre = <<>> /\ roster = NoRoster /\ rop = NoRop

InitParse ==
    /\ px \in {[kind |-> "schedule", events |-> es, min_duty_end_ts |-> c,
                fail_at |-> f, out |-> <<>>] :
                 es \in EventLists(ParseMaxEvents), c \in Cutoffs, f \in 0..(ParseMaxEvents + 1)}
    /\ Idle

\* new_duties_by_midwife[midwife] of a person before the first append (line 319)
InitMerge ==
    /\ px = [kind |-> "duties", duties |-> <<>>, merged_duties |-> <<>>,
             events |-> <<>>, out |-> <<>>]
    /\ Idle

\* GetDuties on the drawn schedule
DoGetDuties ==
    /\ px.kind = "schedule" /\ px.out = <<>>
    /\ px' = [px EXCEPT !.out = <<GetDuties(px.events, px.min_duty_end_ts, px.fail_at)>>]
    /\ UNCHANGED <<remote, attendant, up, log, pre, roster, rop>>

\* lines 330 and 332: one more duty is appended to the person's list, in any
\* order; a duty is appended once (kept and desired duties are disjoint)
AppendDuty ==
    /\ px.kind = "duties" /\ px.events = <<>>
    /\ \E duty \in Duties \ Range(px.duties) :
          px' = [px EXCEPT !.duties = Append(@, duty)]
    /\ UNCHANGED <<remote, attendant, up, log, pre, roster, rop>>

\* Upload's merge step on the collected duties; the remote system stores the
\* posted events in posting order under fresh ids
DoMerge ==
    /\ px.kind = "duties" /\ px.events = <<>> /\ px.duties # <<>>
    /\ LET events == MergeEvents(px.duties)
       IN  px' = [px EXCEPT !.merged_duties = MergedDuties(SortDuties(px.duties)),
                            !.events = [x \in DOMAIN events |-> WithId(events[x], x)]]
    /\ UNCHANGED <<remote, attendant, up, log, pre, roster, rop>>

\* GetDuties (no cutoff) on the schedule the merge step built
DoParseMerged ==
    /\ px.kind = "duties" /\ px.events # <<>> /\ px.out = <<>>
    /\ px' = [px EXCEPT !.out = <<GetDuties(px.events, None, 0)>>]
    /\ UNCHANGED <<remote, attendant, up, log, pre, roster, rop>>

NextParse == DoGetDuties
NextMerge == AppendDuty \/ DoMerge \/ DoParseMerged

\* GetDuties on drawn schedules
SpecParse == InitParse /\ [][NextParse]_vars
\* Upload's merge step on every list of distinct duties, and GetDuties on
\* its events
SpecMerge == InitMerge /\ [][NextMerge]_vars

\* ---------------------------------------------------------------- C4
\* C4: the merge step sorts the duties by (date, shift) and cuts the sorted
\* list into consecutive non-empty runs; inside a run every duty is directly
\* followed by the next one, the last duty of a run is not directly followed
\* by the first duty of the next run, and the event of a run starts at the
\* begin of its first duty and ends at the end of its last duty.
C4_MergeRuns ==
    (px.kind = "duties" /\ px.events # <<>>) =>
        LET runs == px.merged_duties
            all  == Concat(runs)
        IN  /\ Len(all) = Len(px.duties) /\ Range(all) = Range(px.duties)
            /\ \A x \in 1..(Len(all) - 1) : DutyLess(all[x], all[x + 1])
            /\ \A r \in DOMAIN runs :
                  /\ runs[r] # <<>>
                  /\ \A x \in 1..(Len(runs[r]) - 1) :
                        /\ Follows(runs[r][x], runs[r][x + 1])
                        /\ GridEnd(runs[r][x]) = GridBegin(runs[r][x + 1])
            /\ \A r \in 1..(Len(runs) - 1) :
                  ~Follows(runs[r][Len(runs[r])], runs[r + 1][1])
            /\ Len(px.events) = Len(runs)
            /\ \A r \in DOMAIN runs :
                  /\ EventStartTs(px.events[r]) = GridBegin(runs[r][1])
                  /\ EventEndTs(px.events[r]) = GridEnd(runs[r][Len(runs[r])])

\* C4 witness: a night duty and the next date's day duty were merged into one
\* run while two day duties two dates apart were left as two runs.
C4_Witness ==
    /\ px.kind = "duties" /\ px.events # <<>>
    /\ \E r \in DOMAIN px.merged_duties :
          \E x \in 1..(Len(px.merged_duties[r]) - 1) :
              /\ px.merged_duties[r][x] = Duty(0, night)
              /\ px.merged_duties[r][x + 1] = Duty(1, day)
    /\ Len(px.merged_duties) > 1

\* ---------------------------------------------------------------- C5
\* C5: GetDuties (no cutoff) on the schedule made of the merge step's events
\* returns normally, its keys are exactly the merged duties, and every duty
\* maps to the event of the run that holds it.
C5_RoundTrip ==
    (px.kind = "duties" /\ px.out # <<>>) =>
        LET r == px.out[1]
        IN  /\ r.err = "none"
            /\ D_Unique(r.event_by_duty)
            /\ D_Keys(r.event_by_duty) = Range(px.duties)
            /\ \A k \in DOMAIN px.merged_duties :
                  \A d \in Range(px.merged_duties[k]) :
                      D_Get(r.event_by_duty, d) = px.events[k]

\* C5 witness: a round trip over at least two events, one of them merged from
\* several duties.
C5_Witness ==
    /\ px.kind = "duties" /\ px.out # <<>>
    /\ Len(px.events) > 1
    /\ \E k \in DOMAIN px.merged_duties : Len(px.merged_duties[k]) > 1

\* ---------------------------------------------------------------- C6
KeptEvents == {e \in Range(px.events) : ~Expired(e, px.min_duty_end_ts)}

\* C6: when an event the cutoff does not remove has a start or an end that is
\* not on the grid (10:00 or 20:00), or an end that is not after its start,
\* GetDuties ends with an error.
C6_OffGridFails ==
    (px.kind = "schedule" /\ px.out # <<>>) =>
        \A e \in KeptEvents :
            (\/ ~OnGrid(EventStartTs(e))
             \/ ~OnGrid(EventEndTs(e))
             \/ EventEndTs(e) <= EventStartTs(e))
            => px.out[1].err # "none"

\* ---------------------------------------------------------------- C7
\* C7 as stated: when two events of the schedule cover the same duty,
\* GetDuties ends with an error.
C7_ConflictFails ==
    (px.kind = "schedule" /\ px.out # <<>>) =>
        ((\E x, y \in Range(px.events) : x # y /\ Covered(x) \cap Covered(y) # {})
            => px.out[1].err # "none")

\* C7 amended: when two events that the cutoff does not remove cover the same
\* duty, GetDuties ends with an error; and a map GetDuties returns holds each
\* duty once, mapped to the one remaining event that covers it.
C7_KeptConflictFails ==
    (px.kind = "schedule" /\ px.out # <<>>) =>
        LET r == px.out[1]
        IN  /\ (\E x, y \in KeptEvents : x # y /\ Covered(x) \cap Covered(y) # {})
                  => r.err # "none"
            /\ r.err = "none" =>
                  /\ D_Unique(r.event_by_duty)
                  /\ \A d \in AllDuties :
                        LET cov == {e \in KeptEvents : d \in Covered(e)}
                        IN  /\ Cardinality(cov) <= 1
                            /\ D_Has(r.event_by_duty, d) <=> cov # {}
                            /\ cov # {} => D_Get(r.event_by_duty, d) \in cov

\* C7 witness: two on-grid events that are both kept share a duty, no remote
\* call failed, and GetDuties ended with the conflict error.
C7_Witness ==
    /\ px.kind = "schedule" /\ px.out # <<>>
    /\ px.fail_at = 0
    /\ \E x, y \in KeptEvents :
          /\ x # y /\ Covered(x) \cap Covered(y) # {}
          /\ OnGrid(EventStartTs(x)) /\ OnGrid(EventEndTs(x))
          /\ OnGrid(EventStartTs(y)) /\ OnGrid(EventEndTs(y))
    /\ px.out[1].err = "conflict"

\* ------------------------------------------------------- rule coverage
\* the people whose remote schedule holds an event covering duty d
RemoteOwners(d) ==
    {rule.name : rule \in {r \in Range(remote.rules) :
        \E sch \in Range(remote.schedules) :
            /\ sch.name = r.holidaySchedule
            /\ \E e \in Range(sch.events) : d \in Covered(e)}}

DesiredKeys == D_Keys(up.midwife_by_duty)

\* ---------------------------------------------------------------- C1
\* C1: when Upload has returned normally, every duty of the desired
\* assignment is a key of the refreshed event map of its desired person's
\* rule, of no other rule's map, and on the remote system it is covered by
\* that person's schedule alone.
C1_DesiredApplied ==
    up.pc = "done" =>
        \A x \in DOMAIN up.midwife_by_duty :
            LET d  == up.midwife_by_duty[x].k
                mw == up.midwife_by_duty[x].v
            IN  /\ D_Has(attendant.rule_by_midwife, mw)
                /\ d \in CoveredBy(attendant.rule_by_midwife, mw)
                /\ \A other \in D_Keys(attendant.rule_by_midwife) :
                      other # mw => d \notin CoveredBy(attendant.rule_by_midwife, other)
                /\ RemoteOwners(d) = {mw.name}

\* C1 witness: a finished pass that gave one duty to a person who owned no
\* rule before and another duty, taken from a different person's rule, to a
\* person who did own a rule.
C1_Witness ==
    /\ up.pc = "done"
    /\ \E x, y \in DOMAIN up.midwife_by_duty :
          /\ ~D_Has(pre, up.midwife_by_duty[x].v)
          /\ D_Has(pre, up.midwife_by_duty[y].v)
          /\ \E other \in D_Keys(pre) :
                /\ other # up.midwife_by_duty[y].v
                /\ up.midwife_by_duty[y].k \in CoveredBy(pre, other)

\* ---------------------------------------------------------------- C2
\* C2: when Upload has returned normally, every duty that is not in the
\* desired assignment and was covered by a person's rule when the pass
\* started is still covered by that person's rule and by no other rule.
C2_UnchangedKept ==
    up.pc = "done" =>
        \A p \in D_Keys(pre) :
            \A d \in CoveredBy(pre, p) \ DesiredKeys :
                /\ d \in CoveredBy(attendant.rule_by_midwife, p)
                /\ \A other \in D_Keys(attendant.rule_by_midwife) :
                      other # p => d \notin CoveredBy(attendant.rule_by_midwife, other)
                /\ RemoteOwners(d) = {p.name}

\* C2 witness: a finished pass that deleted an event which covered a changed
\* duty and, on both sides of it, duties that were not to change.
C2_Witness ==
    /\ up.pc = "done"
    /\ \E p \in D_Keys(pre) :
          \E d1, d2, d3 \in CoveredBy(pre, p) :
              LET ebd == D_Get(pre, p).event_by_duty
              IN  /\ DutyLess(d1, d2) /\ DutyLess(d2, d3)
                  /\ d1 \notin DesiredKeys /\ d2 \in DesiredKeys /\ d3 \notin DesiredKeys
                  /\ D_Get(ebd, d1).id = D_Get(ebd, d2).id
                  /\ D_Get(ebd, d3).id = D_Get(ebd, d2).id
                  /\ \E c \in Range(log) :
                        c.method = "DELETE" /\ c.ok /\ c.arg = D_Get(ebd, d2).id

\* ---------------------------------------------------------------- C8
\* C8: a failed remote call is the last call of the pass, and Upload has
\* ended with the error.
C8_FailFast ==
    \A x \in DOMAIN log :
        ~log[x].ok => (x = Len(log) /\ up.pc = "failed" /\ up.err = "transport")

\* C8 witness: the POST of a new rule failed after a DELETE, an event POST
\* and the schedule POST of the same pass had succeeded.
C8_Witness ==
    /\ log # <<>>
    /\ LET last == log[Len(log)]
       IN  last.method = "POST" /\ last.what = "rule" /\ ~last.ok
    /\ \E c \in Range(log) : c.method = "DELETE" /\ c.ok
    /\ \E c \in Range(log) : c.method = "POST" /\ c.what = "event" /\ c.ok

\* ---------------------------------------------------------------- C3
\* the DELETE and POST calls of the pass, in order
Mutations == SelectSeq(log, LAMBDA c : c.method \in {"DELETE", "POST"})
PostedEvents(midwife) ==
    SelectSeq(log, LAMBDA c : c.method = "POST" /\ c.what = "event" /\ c.midwife = midwife)
\* the event covers exactly the whole dates first..last
SpansDates(event, first, last) ==
    /\ EventStartTs(event) = HoursPerDay * first + 10
    /\ EventEndTs(event) = HoursPerDay * (last + 1) + 10

\* C3: A owns one merged event over MergedDays dates and the desired
\* assignment gives the two duties of the ChangedDay-th date to another
\* person.  The finished pass issued one DELETE, that of A's event; two event
\* POSTs for A, one for the dates before the changed date and one for the
\* dates after it; for the other person one event POST for the changed date
\* when they own a rule, else one schedule POST holding that one event and
\* one rule POST; and no other DELETE or POST.
C3_Minimal ==
    up.pc = "done" =>
        LET s      == WindowStart(pre)
            other  == up.midwife_by_duty[1].v
            orig   == D_Get(D_Get(pre, MidwifeA).event_by_duty, Duty(s, day)).id
            dels   == SelectSeq(log, LAMBDA c : c.method = "DELETE")
            forA   == PostedEvents(MidwifeA)
            forO   == PostedEvents(other)
            scheds == SelectSeq(log, LAMBDA c : c.method = "POST" /\ c.what = "schedule")
            rules  == SelectSeq(log, LAMBDA c : c.method = "POST" /\ c.what = "rule")
        IN  /\ Len(dels) = 1 /\ dels[1].midwife = MidwifeA /\ dels[1].arg = orig
            /\ Len(forA) = 2
            /\ SpansDates(forA[1].arg, s, s + ChangedDay - 2)
            /\ SpansDates(forA[2].arg, s + ChangedDay, s + MergedDays - 1)
            /\ IF D_Has(pre, other)
               THEN /\ Len(forO) = 1
                    /\ SpansDates(forO[1].arg, s + ChangedDay - 1, s + ChangedDay - 1)
                    /\ Len(scheds) = 0 /\ Len(rules) = 0
               ELSE /\ Len(forO) = 0
                    /\ Len(scheds) = 1 /\ scheds[1].midwife = other
                    /\ Len(scheds[1].arg) = 1
                    /\ SpansDates(scheds[1].arg[1], s + ChangedDay - 1, s + ChangedDay - 1)
                    /\ Len(rules) = 1 /\ rules[1].midwife = other
            /\ Len(Mutations) = Len(dels) + Len(forA) + Len(forO) + Len(scheds) + Len(rules)

\* C3 witness: such a pass has finished, the other person owning a rule
\* whose schedule already held an event.
C3_Witness ==
    /\ up.pc = "done"
    /\ Len(Mutations) > 0
    /\ \E p \in D_Keys(pre) : p # MidwifeA /\ p = up.midwife_by_duty[1].v
                              /\ CoveredBy(pre, p) # {}

\* ---------------------------------------------------------------- C9
ValidationErrors == {"start", "conflict", "end"}

\* C9: when GetDuties ends with a validation error in Upload's refresh loop,
\* every rule that existed when the pass started still holds the event map
\* it had then.
C9_NoPartialRefresh ==
    (up.pc = "failed" /\ up.err \in ValidationErrors) =>
        \A p \in D_Keys(pre) :
            D_Get(attendant.rule_by_midwife, p).event_by_duty = D_Get(pre, p).event_by_duty

\* Without another client's change no GetDuties of the refresh loop ends
\* with a validation error.
RefreshNeverInvalid == up.pc = "failed" => up.err = "transport"

\* --------------------------------------------------------------- C10
\* two names are equal up to letter case
SameLetter(c1, c2) ==
    c1 = c2 \/ {c1, c2} \in {{"A", "a"}, {"N", "n"}, {"B", "b"}, {"E", "e"}}
EqualUpToCase(n1, n2) ==
    Len(n1) = Len(n2) /\ \A x \in DOMAIN n1 : SameLetter(n1[x], n2[x])
Registered(r) == {e.v : e \in Range(r.midwife_by_name)}

\* C10: the roster holds every duty at most once and no two registered
\* people whose names are equal up to letter case; Add on a duty that has an
\* assignee ends with an error and AddMidwife with a name equal up to case
\* to a registered one ends with an error, both leaving the roster as it was.
C10_RosterUnique ==
    /\ [](/\ D_Unique(roster.midwife_by_duty)
          /\ D_Unique(roster.midwife_by_name)
          /\ \A m1, m2 \in Registered(roster) :
                EqualUpToCase(m1.name, m2.name) => m1 = m2)
    /\ [][Len(rop') = Len(rop) + 1 =>
            LET c == rop'[Len(rop')]
            IN  /\ (c.op = "Add" /\ D_Has(roster.midwife_by_duty, c.duty))
                      => (c.err = "duplicate_duty" /\ roster' = roster)
                /\ (c.op = "AddMidwife"
                      /\ \E m \in Registered(roster) : EqualUpToCase(m.name, c.midwife.name))
                      => (c.err = "duplicate_person" /\ roster' = roster)
                /\ c.err # "none" => roster' = roster]_vars

\* C10 witness: an Add on an assigned duty, for another person, and an
\* AddMidwife whose name differs from a registered one only in letter case
\* have both ended with an error.
C10_Witness ==
    /\ \E x \in DOMAIN rop : \E y \in 1..(x - 1) :
          /\ rop[x].op = "Add" /\ rop[x].err = "duplicate_duty"
          /\ rop[y].op = "Add" /\ rop[y].err = "none" /\ rop[y].duty = rop[x].duty
          /\ rop[y].midwife # rop[x].midwife
    /\ \E x \in DOMAIN rop :
          /\ rop[x].op = "AddMidwife" /\ rop[x].err = "duplicate_person"
          /\ \E m \in Registered(roster) : m.name # rop[x].midwife.name
                                           /\ EqualUpToCase(m.name, rop[x].midwife.name)

\* --------------------------------------------------------------- C11
\* the (date, shift) pair an entry of Check's list names
ReportedDuty(entry) == Duty(entry[4], IF entry[2] = "Tag" THEN day ELSE night)
\* the pairs of the roster's dates that have no assigned person
Unassigned(r) ==
    {d \in AllDuties : /\ \E x \in DOMAIN r.dates : r.dates[x] = d.date
                       /\ \A x \in DOMAIN r.midwife_by_duty : r.midwife_by_duty[x].k # d}

\* C11: the list Check returns has one entry for each pair (date, shift) with
\* the date among the roster's dates and no assigned person, and no other
\* entry; the entries ascend by date and, within a date, name the day shift
\* before the night shift; the list is empty when every pair is assigned.
C11_CheckGaps ==
    (rop # <<>> /\ rop[1].op = "Check") =>
        LET out == rop[1].out
        IN  /\ \A x \in DOMAIN out :
                  /\ out[x][2] \in {"Tag", "Nacht"}
                  /\ ReportedDuty(out[x]) \in Unassigned(roster)
            /\ \A d \in Unassigned(roster) :
                  Cardinality({x \in DOMAIN out : ReportedDuty(out[x]) = d}) = 1
            /\ \A x \in 1..(Len(out) - 1) :
                  \/ out[x][4] < out[x + 1][4]
                  \/ out[x][4] = out[x + 1][4] /\ out[x][2] = "Tag" /\ out[x + 1][2] = "Nacht"
            /\ (Unassigned(roster) = {}) <=> (out = <<>>)

\* C11 witness: Check returned entries for two different dates, the first
\* of them for a night shift, on a roster that has an assigned duty on one of
\* its dates.
C11_Witness ==
    /\ rop # <<>> /\ rop[1].op = "Check"
    /\ Len(rop[1].out) >= 2
    /\ rop[1].out[1][2] = "Nacht"
    /\ rop[1].out[1][4] # rop[1].out[Len(rop[1].out)][4]
    /\ \E x \in DOMAIN roster.midwife_by_duty :
          \E y \in DOMAIN roster.dates : roster.midwife_by_duty[x].k.date = roster.dates[y]

\* --------------------------------------------------------------- C12
\* C12: in the calls of a pass, no POST for a person comes before a DELETE
\* of an event of that person's schedule, and no refresh GET comes before a
\* DELETE or a POST.
C12_DeleteCreateRefresh ==
    \A x, y \in DOMAIN log :
        x < y =>
            /\ ~(/\ log[x].method = "POST" /\ log[y].method = "DELETE"
                 /\ log[x].midwife = log[y].midwife)
            /\ ~(log[x].method = "GET" /\ log[y].method \in {"DELETE", "POST"})

\* C12 witness: a finished pass that deleted an event of a person and posted
\* an event for the same person, posted a schedule and a rule for a new
\* person, and refreshed at least two rules.
C12_Witness ==
    /\ up.pc = "done"
    /\ \E x, y \in DOMAIN log :
          /\ log[x].method = "DELETE" /\ log[y].method = "POST"
          /\ log[y].what = "event" /\ log[x].midwife = log[y].midwife
    /\ \E x \in DOMAIN log : log[x].method = "POST" /\ log[x].what = "schedule"
    /\ \E x \in DOMAIN log : log[x].method = "POST" /\ log[x].what = "rule"
    /\ Cardinality({x \in DOMAIN log : log[x].method = "GET"}) >= 2

\* --------------------------------------------------------------- C13
\* the events of a rule set's cached maps, as [owner, event]
EventsOf(rule_by_midwife) ==
    UNION {{[owner |-> rule_by_midwife[x].k.name, event |-> e.v] :
               e \in Range(rule_by_midwife[x].v.event_by_duty)} :
           x \in DOMAIN rule_by_midwife}
\* the events of the remote schedules, as [owner, event]
RemoteEvents ==
    UNION {{[owner |-> sch.name, event |-> e] : e \in Range(sch.events)} :
           sch \in Range(remote.schedules)}
\* the event covers a duty that is a key of the desired assignment
CoversChanged(event) == Covered(event) \cap DesiredKeys # {}
Deletes == SelectSeq(log, LAMBDA c : c.method = "DELETE")

\* C13: a pass starts from cached maps that show exactly the remote events.
\* Every DELETE of the pass is for one of these events that covers a duty of
\* the desired assignment, in its owner's schedule, and no event is deleted
\* twice; when Upload has returned normally every such event was deleted by
\* exactly one DELETE and is gone; a pass with an empty desired assignment
\* issues no DELETE and no POST; and an event that covers no duty of the
\* desired assignment is still in its owner's schedule under the same id.
C13_DeleteIffChanged ==
    /\ up.pc = "idle" => EventsOf(attendant.rule_by_midwife) = RemoteEvents
    /\ up.pc # "idle" =>
          /\ \A x \in DOMAIN Deletes :
                \E pe \in EventsOf(pre) :
                    /\ pe.event.id = Deletes[x].arg
                    /\ pe.owner = Deletes[x].midwife.name
                    /\ CoversChanged(pe.event)
          /\ \A x, y \in DOMAIN Deletes : Deletes[x].arg = Deletes[y].arg => x = y
          /\ DesiredKeys = {} => Mutations = <<>>
          /\ \A pe \in EventsOf(pre) : ~CoversChanged(pe.event) => pe \in RemoteEvents
          /\ up.pc = "done" =>
                \A pe \in EventsOf(pre) :
                    CoversChanged(pe.event) =>
                        /\ Cardinality({x \in DOMAIN Deletes :
                                           Deletes[x].arg = pe.event.id /\ Deletes[x].ok}) = 1
                        /\ \A re \in RemoteEvents : re.event.id # pe.event.id

\* C13 witness: a finished pass deleted one event of a person and left
\* another event of the same person, which covers no changed duty, in place.
C13_Witness ==
    /\ up.pc = "done"
    /\ \E pe, qe \in EventsOf(pre) :
          /\ pe.owner = qe.owner /\ pe.event.id # qe.event.id
          /\ CoversChanged(pe.event) /\ ~CoversChanged(qe.event)
          /\ \E x \in DOMAIN Deletes : Deletes[x].arg = pe.event.id /\ Deletes[x].ok
          /\ qe \in RemoteEvents

=============================================================================
